---------------------------- MODULE Spec2Model ----------------------------
(***************************************************************************)
(* Model of the hybrid (BM25 + vector) search of rag_search_txt.py and of  *)
(* the ChromaDB rebuild of rag_builder_txt.py.                             *)
(*                                                                         *)
(* Texts are sequences of one-character strings.  Real-valued scores are   *)
(* kept exact as integers over a common denominator: distances are counted *)
(* in units of 0.0001 (Scale units make 1.0), the sparse scores of one     *)
(* search share the denominator kDen, the dense scores the denominator     *)
(* vDen, and the fused scores the denominator 10 * kDen * vDen.            *)
(***************************************************************************)
EXTENDS Integers, Sequences, FiniteSets, TLC

\* ------------------------------------------------------------------ bounds
MaxDocs == 3
\* Corpus sizes while a rebuild runs beside the search.
MaxConcDocs == 2

\* ------------------------------------------------------- program constants
\* 1.0 in distance units: the 0.0001 of line 102 is one unit.
Scale == 10000
Epsilon == 1
\* alpha = 0.6 and the bonus 0.1, in tenths.
AlphaNum == 6
BoostNum == 1
Tenths == 10

\* -------------------------------------------------------------- input sets
\* Chunk texts the builder can store (never blank: every chunk starts with
\* its header tag) and raw query strings a caller can send.
Texts == { <<"a", " ", "b">>, <<"a", "B">> }
Queries == { <<>>, <<" ">>, <<"a">>, <<"A">>, <<" ", "b", " ", "a">> }
\* Distances ChromaDB can report, in units of 0.0001.
Dists == { 0, Scale, 3 * Scale }
\* Magnitudes of a raw BM25 score whose sign is known.
Magnitudes == { 1, 2 }

\* ----------------------------------------------------------------- strings
IsSpace(c) == c = " "

Lower(c) == IF c = "A" THEN "a" ELSE IF c = "B" THEN "b" ELSE c

LowerStr(s) == [i \in 1..Len(s) |-> Lower(s[i])]

\* str.split(): the maximal runs of non-space characters, in order.
RECURSIVE SplitFrom(_, _, _)
SplitFrom(s, i, cur) ==
    IF i > Len(s)
    THEN (IF cur = <<>> THEN <<>> ELSE <<cur>>)
    ELSE IF IsSpace(s[i])
         THEN (IF cur = <<>> THEN <<>> ELSE <<cur>>) \o SplitFrom(s, i + 1, <<>>)
         ELSE SplitFrom(s, i + 1, Append(cur, s[i]))

Split(s) == SplitFrom(s, 1, <<>>)

simple_tokenize(text) == Split(LowerStr(text))

\* Python's `sub in text` for strings: scan the start positions left to right.
RECURSIVE ContainsFrom(_, _, _)
ContainsFrom(sub, text, p) ==
    IF p + Len(sub) - 1 > Len(text)
    THEN FALSE
    ELSE IF SubSeq(text, p, p + Len(sub) - 1) = sub
         THEN TRUE
         ELSE ContainsFrom(sub, text, p + 1)

Contains(sub, text) == ContainsFrom(sub, text, 1)

\* ---------------------------------------------------------------- helpers
Range(s) == { s[i] : i \in 1..Len(s) }

RECURSIVE SeqMax(_)
SeqMax(s) ==
    IF Len(s) = 1 THEN s[1]
    ELSE LET m == SeqMax(Tail(s)) IN IF s[1] >= m THEN s[1] ELSE m

RECURSIVE Product(_, _)
Product(f, S) ==
    IF S = {} THEN 1
    ELSE LET x == CHOOSE y \in S : TRUE IN f[x] * Product(f, S \ {x})

SeqsUpTo(S, n) == UNION { [1..m -> S] : m \in 0..n }

Min(a, b) == IF a <= b THEN a ELSE b

\* Values of k below, at and above the corpus sizes.
KValues == {1, 2, MaxDocs + 1}

\* run_rag asks for the top 7 (line 144).
RunRagK == 7

\* ---------------------------------------------------- BM25Okapi (rank_bm25)
\* The library's scores are real numbers built from logarithms; the model
\* keeps their signs exact and leaves their magnitudes open.
Vocabulary(tc) == UNION { Range(tc[i]) : i \in 1..Len(tc) }

DocFreq(tc, t) == Cardinality({ i \in 1..Len(tc) : t \in Range(tc[i]) })

Sign(x) == IF x > 0 THEN 1 ELSE IF x < 0 THEN -1 ELSE 0

\* idf = log(N - f + 0.5) - log(f + 0.5): its sign is that of N - 2f.
RawIdfSign(tc, t) == Sign(Len(tc) - 2 * DocFreq(tc, t))

\* average_idf = (sum of the raw idf) / |vocabulary|: the sum of the logs is
\* the log of the product of (2N - 2f + 1) / (2f + 1).
AvgIdfSign(tc) ==
    LET V == Vocabulary(tc)
        up == [t \in V |-> 2 * Len(tc) - 2 * DocFreq(tc, t) + 1]
        dn == [t \in V |-> 2 * DocFreq(tc, t) + 1]
    IN  Sign(Product(up, V) - Product(dn, V))

\* A negative idf is replaced by eps = 0.25 * average_idf; a term outside
\* the vocabulary counts 0 (`self.idf.get(q) or 0`).
IdfSign(tc, t) ==
    IF t \notin Vocabulary(tc) THEN 0
    ELSE IF RawIdfSign(tc, t) < 0 THEN AvgIdfSign(tc)
    ELSE RawIdfSign(tc, t)

\* get_scores adds, for each query token the document holds, idf times a
\* positive weight.
ScoreSigns(tc, tq, i) ==
    LET C == { IdfSign(tc, tq[j]) : j \in { j \in 1..Len(tq) : tq[j] \in Range(tc[i]) } }
    IN  IF C \subseteq {0} THEN {0}
        ELSE IF -1 \notin C THEN {1}
        ELSE IF 1 \notin C THEN {-1}
        ELSE {-1, 0, 1}

ScoreValues(sgn) ==
    IF sgn = 0 THEN {0}
    ELSE IF sgn = 1 THEN Magnitudes
    ELSE { 0 - m : m \in Magnitudes }

BM25Scores(tc, tq) ==
    { s \in [1..Len(tc) -> {0} \cup Magnitudes \cup { 0 - m : m \in Magnitudes }] :
        \A i \in 1..Len(tc) :
            s[i] \in UNION { ScoreValues(g) : g \in ScoreSigns(tc, tq, i) } }

\* BM25Okapi(corpus) divides by the corpus size and by the vocabulary size.
BM25Raises(tc) == Len(tc) = 0 \/ Vocabulary(tc) = {}

\* --------------------------------------------------- steps of hybrid_search
\* Mutant: the emptiness test of line 59 never fires.
IsEmptyCorpusNever(docs) == FALSE

IsEmptyCorpus(docs) == Len(docs) = 0

\* Mutant: `>= 0` for `> 0` in line 73.
NormDivisorNonNegative(raw) == IF SeqMax(raw) >= 0 THEN SeqMax(raw) ELSE 1

\* Lines 73-74: the divisor of the sparse scores (1: left as they are).
NormDivisor(raw) == IF SeqMax(raw) > 0 THEN SeqMax(raw) ELSE 1

\* Mutant: `is None` for `not` in line 80.
EmbeddingIsNone(e) == e = "none"

\* Line 80: `not query_embedding` is true of None and of an empty vector.
EmbeddingMissing(e) == e \in {"none", "empty"}

\* Lines 99-103: id -> numerator of 1 - dist / (max_dist + 0.0001).
MaxDist(dist) == IF Len(dist) = 0 THEN Scale ELSE SeqMax(dist)

VectorScoreMap(dist) == [i \in 1..Len(dist) |-> MaxDist(dist) + Epsilon - dist[i]]

\* Mutant: the first token of simple_tokenize(query) in line 122.
BoostTokenLowered(q) == simple_tokenize(q)[1]

\* Line 122: the first whitespace-delimited token of the raw query.
BoostToken(q) == Split(q)[1]

HasBoost(q, doc) == Contains(BoostToken(q), doc)

\* Lines 115-123 over the denominator Tenths * kd * vd.
TotalScore(ks, kd, vs, vd, boost) ==
    AlphaNum * ks * vd + (Tenths - AlphaNum) * vs * kd
        + (IF boost THEN BoostNum * kd * vd ELSE 0)

\* Mutant: a sort that puts a later equal score first.
RECURSIVE InsertDescUnstable(_, _)
InsertDescUnstable(x, s) ==
    IF s = <<>> THEN <<x>>
    ELSE IF s[1].score > x.score
         THEN <<s[1]>> \o InsertDescUnstable(x, Tail(s))
         ELSE <<x>> \o s

\* Line 128: list.sort(key=score, reverse=True) is stable.
RECURSIVE InsertDesc(_, _)
InsertDesc(x, s) ==
    IF s = <<>> THEN <<x>>
    ELSE IF s[1].score >= x.score
         THEN <<s[1]>> \o InsertDesc(x, Tail(s))
         ELSE <<x>> \o s

RECURSIVE SortFrom(_, _, _)
SortFrom(s, i, acc) ==
    IF i > Len(s) THEN acc ELSE SortFrom(s, i + 1, InsertDesc(s[i], acc))

SortDesc(s) == SortFrom(s, 1, <<>>)

\* Line 131: final_scores[:k].
TopK(s, n) == SubSeq(s, 1, Min(n, Len(s)))

\* -------------------------------------------------------------------- state
VARIABLES
    collection,        \* the ChromaDB collection "txt_collection": exists, id, docs
    query, k,          \* the arguments of hybrid_search
    pc,                \* where the search request stands
    handle,            \* the id held by the Collection object of run_rag
    all_docs,          \* line 56 (ids are the positions: doc_0, doc_1, ...)
    bm25_raw,          \* line 70, before the normalisation
    bm25_scores, kDen, \* line 74: numerators and their common divisor
    query_embedding,   \* line 79: "unset", "none", "empty" or "vector"
    vector_ids,        \* line 95, as a set of ids
    vector_score_map,  \* line 98: id -> numerator over vDen
    vDen,              \* max_dist + 0.0001
    total_score,       \* lines 119-123, per document, over Tenths * kDen * vDen
    final_scores,      \* line 128, sorted
    result,            \* line 131 (documents by their position in all_docs)
    outcome,           \* how hybrid_search ended
    embedCalls,        \* calls of genai.embed_content
    queryCalls,        \* calls of collection.query
    ragResult,         \* what run_rag hands to its caller
    bpc,               \* where build_rag_database stands
    chunks,            \* the chunks the builder is about to store
    published          \* the corpora ever completely stored

vars == << collection, query, k, pc, handle, all_docs, bm25_raw, bm25_scores,
           kDen, query_embedding, vector_ids, vector_score_map, vDen,
           total_score, final_scores, result, outcome, embedCalls, queryCalls,
           ragResult, bpc, chunks, published >>

searchVars == << query, k, pc, handle, all_docs, bm25_raw, bm25_scores, kDen,
                 query_embedding, vector_ids, vector_score_map, vDen,
                 total_score, final_scores, result, outcome, embedCalls,
                 queryCalls, ragResult >>

buildVars == << collection, bpc, chunks, published >>

Corpora == SeqsUpTo(Texts, MaxDocs)

InitSearch ==
    /\ query \in Queries
    /\ pc = "start"
    /\ handle = 0
    /\ all_docs = <<>>
    /\ bm25_raw = <<>>
    /\ bm25_scores = <<>>
    /\ kDen = 1
    /\ query_embedding = "unset"
    /\ vector_ids = {}
    /\ vector_score_map = <<>>
    /\ vDen = 1
    /\ total_score = <<>>
    /\ final_scores = <<>>
    /\ result = <<>>
    /\ outcome = "none"
    /\ embedCalls = 0
    /\ queryCalls = 0
    /\ ragResult = "unset"

\* One search over a stored collection; no build is running.
Init ==
    /\ InitSearch
    /\ k \in KValues
    /\ \E docs \in Corpora :
        /\ collection = [exists |-> TRUE, id |-> 1, docs |-> docs]
        /\ published = {docs}
    /\ bpc = "off"
    /\ chunks = <<>>

\* run_rag, lines 137-141: get_collection raises when there is no collection.
RunRag ==
    /\ pc = "start"
    /\ IF collection.exists
       THEN /\ handle' = collection.id
            /\ pc' = "get"
            /\ UNCHANGED << outcome, ragResult >>
       ELSE /\ outcome' = "NoCollection"
            /\ ragResult' = "Exception"
            /\ pc' = "done"
            /\ UNCHANGED handle
    /\ UNCHANGED << query, k, all_docs, bm25_raw, bm25_scores, kDen,
                    query_embedding, vector_ids, vector_score_map, vDen,
                    total_score, final_scores, result, embedCalls, queryCalls >>
    /\ UNCHANGED buildVars

\* A Collection object whose collection was deleted raises on use.
Stale == ~collection.exists \/ collection.id # handle

\* hybrid_search, lines 55-61.
Get ==
    /\ pc = "get"
    /\ IF Stale
       THEN /\ outcome' = "NoCollection"
            /\ pc' = "raised"
            /\ UNCHANGED << all_docs, result >>
       ELSE /\ all_docs' = collection.docs
            /\ IF IsEmptyCorpus(collection.docs)
               THEN /\ result' = <<>>
                    /\ outcome' = "empty_corpus"
                    /\ pc' = "returned"
               ELSE /\ pc' = "bm25"
                    /\ UNCHANGED << result, outcome >>
    /\ UNCHANGED << query, k, handle, bm25_raw, bm25_scores, kDen,
                    query_embedding, vector_ids, vector_score_map, vDen,
                    total_score, final_scores, embedCalls, queryCalls, ragResult >>
    /\ UNCHANGED buildVars

\* Lines 66-74.
Bm25 ==
    /\ pc = "bm25"
    /\ LET tc == [i \in 1..Len(all_docs) |-> simple_tokenize(all_docs[i])]
           tq == simple_tokenize(query)
       IN  IF BM25Raises(tc)
           THEN /\ outcome' = "ZeroDivisionError"
                /\ pc' = "raised"
                /\ UNCHANGED << bm25_raw, bm25_scores, kDen >>
           ELSE \E raw \in BM25Scores(tc, tq) :
                /\ bm25_raw' = raw
                /\ bm25_scores' = raw
                /\ kDen' = NormDivisor(raw)
                /\ pc' = "embed"
                /\ UNCHANGED outcome
    /\ UNCHANGED << query, k, handle, all_docs, query_embedding, vector_ids,
                    vector_score_map, vDen, total_score, final_scores, result,
                    embedCalls, queryCalls, ragResult >>
    /\ UNCHANGED buildVars

\* Lines 79-80 with get_query_embedding, lines 28-38.
Embed ==
    /\ pc = "embed"
    /\ embedCalls' = embedCalls + 1
    /\ \E e \in {"none", "empty", "vector"} :
        /\ query_embedding' = e
        /\ IF EmbeddingMissing(e)
           THEN /\ result' = <<>>
                /\ outcome' = "no_embedding"
                /\ pc' = "returned"
           ELSE /\ pc' = "vquery"
                /\ UNCHANGED << result, outcome >>
    /\ UNCHANGED << query, k, handle, all_docs, bm25_raw, bm25_scores, kDen,
                    vector_ids, vector_score_map, vDen, total_score,
                    final_scores, queryCalls, ragResult >>
    /\ UNCHANGED buildVars

\* Lines 87-103: n_results = len(all_docs) of the collection as it is now.
VQuery ==
    /\ pc = "vquery"
    /\ queryCalls' = queryCalls + 1
    /\ IF Stale
       THEN /\ outcome' = "NoCollection"
            /\ pc' = "raised"
            /\ UNCHANGED << vector_ids, vector_score_map, vDen >>
       ELSE \E distances \in [1..Len(collection.docs) -> Dists] :
            /\ vector_ids' = 1..Len(collection.docs)
            /\ vector_score_map' = VectorScoreMap(distances)
            /\ vDen' = MaxDist(distances) + Epsilon
            /\ pc' = "fuse"
            /\ UNCHANGED outcome
    /\ UNCHANGED << query, k, handle, all_docs, bm25_raw, bm25_scores, kDen,
                    query_embedding, total_score, final_scores, result,
                    embedCalls, ragResult >>
    /\ UNCHANGED buildVars

\* Lines 108-131.
Fuse ==
    /\ pc = "fuse"
    /\ IF Split(query) = <<>>
       THEN /\ outcome' = "IndexError"
            /\ pc' = "raised"
            /\ UNCHANGED << total_score, final_scores, result >>
       ELSE LET v_score(i) == IF i \in vector_ids THEN vector_score_map[i] ELSE 0
                scores == [i \in 1..Len(all_docs) |->
                             TotalScore(bm25_scores[i], kDen, v_score(i), vDen,
                                        HasBoost(query, all_docs[i]))]
                pairs == [i \in 1..Len(all_docs) |-> [score |-> scores[i], doc |-> i]]
                sorted == SortDesc(pairs)
                top == TopK(sorted, k)
            IN  /\ total_score' = scores
                /\ final_scores' = sorted
                /\ result' = [j \in 1..Len(top) |-> top[j].doc]
                /\ outcome' = "ranked"
                /\ pc' = "returned"
    /\ UNCHANGED << query, k, handle, all_docs, bm25_raw, bm25_scores, kDen,
                    query_embedding, vector_ids, vector_score_map, vDen,
                    embedCalls, queryCalls, ragResult >>
    /\ UNCHANGED buildVars

\* run_rag, lines 144-173 ("Answer": the generated text or the text of the
\* generation error, both strings built from the documents found).
RunRagReturn ==
    /\ pc \in {"returned", "raised"}
    /\ pc' = "done"
    /\ IF pc = "raised"
       THEN ragResult' = "Exception"
       ELSE IF result = <<>>
            THEN ragResult' = "NoDocsMessage"
            ELSE ragResult' = "Answer"
    /\ UNCHANGED << query, k, handle, all_docs, bm25_raw, bm25_scores, kDen,
                    query_embedding, vector_ids, vector_score_map, vDen,
                    total_score, final_scores, result, outcome, embedCalls,
                    queryCalls >>
    /\ UNCHANGED buildVars

Search == RunRag \/ Get \/ Bm25 \/ Embed \/ VQuery \/ Fuse \/ RunRagReturn

Next == Search

Spec == Init /\ [][Next]_vars

\* ------------------------------------------------------ build_rag_database
\* Lines 166-170: the existing collection is deleted.
BuildDelete ==
    /\ bpc = "delete"
    /\ collection' = IF collection.exists
                     THEN [collection EXCEPT !.exists = FALSE, !.docs = <<>>]
                     ELSE collection
    /\ bpc' = "create"
    /\ UNCHANGED << chunks, published >>
    /\ UNCHANGED searchVars

\* Line 172: get_or_create_collection makes a new, empty collection.
BuildCreate ==
    /\ bpc = "create"
    /\ collection' = IF collection.exists
                     THEN collection
                     ELSE [exists |-> TRUE, id |-> collection.id + 1, docs |-> <<>>]
    /\ bpc' = "add"
    /\ UNCHANGED << chunks, published >>
    /\ UNCHANGED searchVars

\* Lines 174-185: one add of all the chunks; ChromaDB refuses an empty add
\* and the except of line 184 swallows that.
BuildAdd ==
    /\ bpc = "add"
    /\ IF chunks = <<>>
       THEN UNCHANGED << collection, published >>
       ELSE /\ collection' = [collection EXCEPT !.docs = collection.docs \o chunks]
            /\ published' = published \cup {collection.docs \o chunks}
    /\ bpc' = "built"
    /\ UNCHANGED chunks
    /\ UNCHANGED searchVars

Build == BuildDelete \/ BuildCreate \/ BuildAdd

\* A search request of run_rag while build_rag_database rebuilds the stored
\* collection.
InitConc ==
    /\ InitSearch
    /\ k = RunRagK
    /\ \E docs \in SeqsUpTo(Texts, MaxConcDocs) \ {<<>>} :
        /\ collection = [exists |-> TRUE, id |-> 1, docs |-> docs]
        /\ published = {docs}
    /\ bpc = "delete"
    /\ chunks \in SeqsUpTo(Texts, MaxConcDocs) \ {<<>>}

NextConc == Search \/ Build

SpecConc == InitConc /\ [][NextConc]_vars

\* ------------------------------------------------------------------ claims
Finished == pc \in {"returned", "raised", "done"}

NDocs == Len(collection.docs)

\* query[a..b] is the first maximal run of non-space characters of q.
IsFirstToken(q, a, b) ==
    /\ 1 <= a /\ a <= b /\ b <= Len(q)
    /\ \A i \in 1..(a - 1) : q[i] = " "
    /\ \A i \in a..b : q[i] # " "
    /\ b = Len(q) \/ q[b + 1] = " "

\* tok occurs in doc as a run of consecutive characters.
OccursIn(tok, doc) ==
    \E p \in 1..Len(doc) :
        /\ p + Len(tok) - 1 <= Len(doc)
        /\ \A i \in 1..Len(tok) : doc[p + i - 1] = tok[i]

FirstTokenOccurs(q, doc) ==
    \E a \in 1..Len(q) : \E b \in a..Len(q) :
        IsFirstToken(q, a, b) /\ OccursIn(SubSeq(q, a, b), doc)

WeightedSum(i) ==
    AlphaNum * bm25_scores[i] * vDen + (Tenths - AlphaNum) * vector_score_map[i] * kDen

\* C1: with a non-empty corpus of n documents, an available query embedding
\* and k >= n, the search ends with a ranking that holds each of the n
\* documents exactly once.
C1_AllDocumentsOnce ==
    (pc = "done" /\ NDocs > 0 /\ k >= NDocs /\ query_embedding = "vector")
        => /\ outcome = "ranked"
           /\ Len(result) = NDocs
           /\ \A i \in 1..NDocs :
                Cardinality({ j \in 1..Len(result) : result[j] = i }) = 1

\* C2: for every corpus and every positive k (the query embedding being
\* available whenever it is asked for) the result has length min(k, n), is
\* in non-increasing order of fused score, and no document left out scores
\* strictly more than a document in the result.
C2_TopKSortedByScore ==
    (pc = "done" /\ query_embedding \in {"unset", "vector"})
        => /\ outcome \in {"ranked", "empty_corpus"}
           /\ Len(result) = Min(k, NDocs)
           /\ \A p \in 1..Len(result) : \A q \in 1..Len(result) :
                p < q => total_score[result[p]] >= total_score[result[q]]
           /\ \A i \in 1..NDocs :
                i \notin Range(result)
                    => \A p \in 1..Len(result) :
                         total_score[i] <= total_score[result[p]]

\* C3: two documents of the result with equal fused scores stand in their
\* corpus order (the sort is stable).
C3_StableTies ==
    \A p \in 1..Len(result) : \A q \in 1..Len(result) :
        (p < q /\ total_score[result[p]] = total_score[result[q]])
            => result[p] < result[q]

C3_Witness ==
    /\ outcome = "ranked"
    /\ \E p \in 1..Len(result) : \E q \in 1..Len(result) :
        /\ p < q
        /\ total_score[result[p]] = total_score[result[q]]
    /\ \E p \in 1..Len(result) : \E q \in 1..Len(result) :
        /\ p < q
        /\ result[p] > result[q]

\* C4: once the query embedding is missing (the provider failed or gave
\* nothing) the search has returned an empty result: no score was fused, no
\* similarity query was made, whatever the sparse scores were.
C4_NoEmbeddingEmptyResult ==
    query_embedding \in {"none", "empty"}
        => /\ pc \in {"returned", "done"}
           /\ outcome = "no_embedding"
           /\ result = <<>>
           /\ total_score = <<>>
           /\ queryCalls = 0

C4_Witness ==
    /\ query_embedding = "empty"
    /\ pc = "done"
    /\ \E i \in 1..Len(bm25_raw) : bm25_raw[i] > 0

\* C5: a search that ends empty for want of a query embedding hands its
\* caller a value other than the one of a search that found no documents.
NoDocumentsReturn == << <<>>, "NoDocsMessage" >>

C5_DistinctSignal ==
    (pc = "done" /\ outcome = "no_embedding")
        => << result, ragResult >> # NoDocumentsReturn

\* C6: on an empty corpus the search returns an empty result, calls neither
\* the embedding provider nor the similarity query, and does not raise.
C6_EmptyCorpus ==
    NDocs = 0
        => /\ embedCalls = 0
           /\ queryCalls = 0
           /\ pc # "raised"
           /\ ragResult # "Exception"
           /\ Finished => (outcome = "empty_corpus" /\ result = <<>>)

C6_Witness == NDocs = 0 /\ pc = "done" /\ ragResult = "NoDocsMessage"

\* C7: a search beside a rebuild works on one completely stored corpus: the
\* collection it uses is there, the documents it read are a corpus that was
\* stored as a whole, and the similarity query scored just those documents.
C7_OneSnapshot ==
    /\ outcome # "NoCollection"
    /\ pc \in {"bm25", "embed", "vquery", "fuse", "returned", "done"}
        => all_docs \in published
    /\ pc \in {"fuse"} => vector_ids = 1..Len(all_docs)

\* C8: a document whose raw text holds the first whitespace-delimited token
\* of the raw query scores the weighted sum plus the bonus 0.1, strictly
\* more than the weighted sum; any other document scores the weighted sum.
C8_BoostRule ==
    outcome = "ranked"
        => /\ kDen * vDen > 0
           /\ \A i \in 1..Len(all_docs) :
                IF FirstTokenOccurs(query, all_docs[i])
                THEN /\ total_score[i] = WeightedSum(i) + BoostNum * kDen * vDen
                     /\ total_score[i] > WeightedSum(i)
                ELSE total_score[i] = WeightedSum(i)

C8_Witness ==
    /\ outcome = "ranked"
    /\ \E i \in 1..Len(all_docs) : FirstTokenOccurs(query, all_docs[i])
    /\ \E i \in 1..Len(all_docs) : ~FirstTokenOccurs(query, all_docs[i])

C10_NeverRaises ==
    (Finished /\ query_embedding = "vector")
        => (outcome = "ranked" /\ pc # "raised" /\ ragResult # "Exception")
=============================================================================
